---- MODULE Spec2Model ----
(***************************************************************************)
(* Registration workflow of src/app/register/page.tsx: every browser       *)
(* session runs the Register component against one shared collection       *)
(* "registrations".  onSubmit is an async function; each await is a point  *)
(* where other sessions may run, so one action models one synchronous      *)
(* stretch of onSubmit, from the settling of one store call to the issue   *)
(* of the next.                                                            *)
(***************************************************************************)
EXTENDS Integers, Sequences, FiniteSets, TLC

VARIABLES
  store,            \* the collection "registrations", in key (push) order
  pc,               \* per session: where its onSubmit call is suspended
  data,             \* per session: the argument of the running onSubmit call
  passNumberLocal,  \* per session: const passNumber of onSubmit (line 117)
  errors,           \* per session: formState.errors for email and phone
  globalError,      \* per session: useState globalError (line 21)
  showDialog,       \* per session: useState showDialog (line 23)
  passNumber,       \* per session: useState passNumber (line 24)
  email,            \* per session: useState email (line 25)
  isLoading,        \* per session: useState isLoading (line 26)
  outcome,          \* per session: how its latest onSubmit call ended (history)
  overlapped,       \* history: some call started while another was running
  calls             \* history: the number of onSubmit calls started so far

vars == <<store, pc, data, passNumberLocal, errors, globalError, showDialog,
          passNumber, email, isLoading, outcome, overlapped, calls>>

ui == <<errors, globalError, showDialog, passNumber, email, isLoading>>

----------------------------------------------------------------------------
\* Bounds of the model.
NumSessions == 2
MaxCalls == 3

Sessions == 1..NumSessions

\* JavaScript null (globalError, the result of isEmailOrPhoneUnique).
null == "null"

\* No message attached to a field of formState.errors.
NoError == ""

\* useForm defaultValues.
defaultValues ==
  [firstName |-> "", lastName |-> "", email |-> "", phone |-> "", gender |-> ""]

FormData(e, p, g) ==
  [firstName |-> "A", lastName |-> "", email |-> e, phone |-> p, gender |-> g]

\* The values onSubmit is called with: two emails, two 10-digit phones and
\* one shorter and one longer phone, exercising the length test of onSubmit
\* itself.  The Select offers "male" and "female"; gender stays "" when
\* nothing was selected.
Inputs ==
  { FormData("a@b.com", "1234567890", "female"),
    FormData("c@d.com", "9876543210", ""),
    FormData("a@b.com", "9876543210", "male"),
    FormData("c@d.com", "1234567890", "male"),
    FormData("c@d.com", "12345", "female"),
    FormData("a@b.com", "12345678901", "male") }

----------------------------------------------------------------------------
\* Faulty variant of price: the two prices exchanged.
price_swapped(gender) ==
  IF gender = "male" THEN 499 ELSE IF gender = "female" THEN 599 ELSE 0

\* const price = gender === "male" ? 599 : gender === "female" ? 499 : 0,
\* with gender = watch("gender"), the field value data.gender carries.
price(gender) ==
  IF gender = "male" THEN 599 ELSE IF gender = "female" THEN 499 ELSE 0

\* Faulty variant of phoneLengthInvalid: longer phones pass.
phoneLengthInvalid_short(d) == Len(d.phone) < 10

\* data.phone.length !== 10
phoneLengthInvalid(d) == Len(d.phone) # 10

PhoneLengthMessage == "Phone number must be exactly 10 digits."

\* uniqueField.charAt(0).toUpperCase() + uniqueField.slice(1)
Capitalized(field) == IF field = "email" THEN "Email" ELSE "Phone"

DuplicateMessage(field) ==
  Capitalized(field) \o " already exists. Please use a different " \o field \o "."

GlobalErrorMessage == "Error: Something went wrong. Please try again."

\* snapshot.val() of the collection: the records in key order; an empty
\* collection yields null, written <<>> here (falsy, and iterating it visits
\* nothing).

\* Faulty variants of generatePassNumber: the count without its successor,
\* and a number that ignores the count.
generatePassNumber_nosucc(snap) ==
  LET nextPassNumber == IF snap # <<>> THEN Len(snap) ELSE 1
  IN  "HOLI-2025" \o ToString(nextPassNumber)

generatePassNumber_const(snap) == "HOLI-2025" \o ToString(1)

\* generatePassNumber, after its get resolved with snapshot value snap.
generatePassNumber(snap) ==
  LET nextPassNumber == IF snap # <<>> THEN Len(snap) + 1 ELSE 1
  IN  "HOLI-2025" \o ToString(nextPassNumber)

\* isEmailOrPhoneUnique, after its get resolved with snapshot value snap: the
\* for-in loop returns at the first record that matches, email before phone.
RECURSIVE scanFrom(_, _, _, _)
scanFrom(snap, i, e, p) ==
  IF i > Len(snap) THEN null
  ELSE IF snap[i].email = e THEN "email"
  ELSE IF snap[i].phone = p THEN "phone"
  ELSE scanFrom(snap, i + 1, e, p)

\* Faulty variants of isEmailOrPhoneUnique: phone tested before email, and
\* phone never tested.
RECURSIVE scanPhoneFirst(_, _, _, _)
scanPhoneFirst(snap, i, e, p) ==
  IF i > Len(snap) THEN null
  ELSE IF snap[i].phone = p THEN "phone"
  ELSE IF snap[i].email = e THEN "email"
  ELSE scanPhoneFirst(snap, i + 1, e, p)

isEmailOrPhoneUnique_phoneFirst(snap, e, p) == scanPhoneFirst(snap, 1, e, p)

RECURSIVE scanEmailOnly(_, _, _, _)
scanEmailOnly(snap, i, e, p) ==
  IF i > Len(snap) THEN null
  ELSE IF snap[i].email = e THEN "email"
  ELSE scanEmailOnly(snap, i + 1, e, p)

isEmailOrPhoneUnique_emailOnly(snap, e, p) == scanEmailOnly(snap, 1, e, p)

isEmailOrPhoneUnique(snap, e, p) == scanFrom(snap, 1, e, p)

\* Faulty variant of registrationData: created as "paid".
registrationData_paid(d, pn) ==
  [firstName |-> d.firstName, lastName |-> d.lastName, email |-> d.email,
   phone |-> d.phone, gender |-> d.gender,
   price |-> price(d.gender), passNumber |-> pn, paymentStatus |-> "paid"]

\* const registrationData = { ...data, price, passNumber, paymentStatus: "unpaid" }
\* (registrationDate, a wall-clock reading no operation consults, is left out).
registrationData(d, pn) ==
  [firstName |-> d.firstName, lastName |-> d.lastName, email |-> d.email,
   phone |-> d.phone, gender |-> d.gender,
   price |-> price(d.gender), passNumber |-> pn, paymentStatus |-> "unpaid"]

----------------------------------------------------------------------------
Init ==
  /\ store = <<>>
  /\ pc = [s \in Sessions |-> "idle"]
  /\ data = [s \in Sessions |-> defaultValues]
  /\ passNumberLocal = [s \in Sessions |-> ""]
  /\ errors = [s \in Sessions |-> [email |-> NoError, phone |-> NoError]]
  /\ globalError = [s \in Sessions |-> null]
  /\ showDialog = [s \in Sessions |-> FALSE]
  /\ passNumber = [s \in Sessions |-> ""]
  /\ email = [s \in Sessions |-> ""]
  /\ isLoading = [s \in Sessions |-> FALSE]
  /\ outcome = [s \in Sessions |-> "none"]
  /\ overlapped = FALSE
  /\ calls = 0

InFlight == {t \in Sessions : pc[t] # "idle"}

\* onSubmit(d), lines 98-110: up to the first await.  The submit button is
\* disabled while isLoading.
Submit(s, d) ==
  /\ pc[s] = "idle"
  /\ ~isLoading[s]
  /\ calls < MaxCalls
  /\ calls' = calls + 1
  /\ globalError' = [globalError EXCEPT ![s] = null]
  /\ IF phoneLengthInvalid(d)
     THEN /\ errors' = [errors EXCEPT ![s] =
                          [email |-> NoError, phone |-> PhoneLengthMessage]]
          /\ isLoading' = [isLoading EXCEPT ![s] = FALSE]
          /\ outcome' = [outcome EXCEPT ![s] = "invalidPhone"]
          /\ UNCHANGED <<pc, data, overlapped>>
     ELSE /\ errors' = [errors EXCEPT ![s] =
                          [email |-> NoError, phone |-> NoError]]
          /\ isLoading' = [isLoading EXCEPT ![s] = TRUE]
          /\ outcome' = [outcome EXCEPT ![s] = "pending"]
          /\ pc' = [pc EXCEPT ![s] = "unique"]
          /\ data' = [data EXCEPT ![s] = d]
          /\ overlapped' = (overlapped \/ InFlight # {})
  /\ UNCHANGED <<store, passNumberLocal, showDialog, passNumber, email>>

\* The locals of a call that returned or threw.
Return(s) ==
  /\ pc' = [pc EXCEPT ![s] = "idle"]
  /\ data' = [data EXCEPT ![s] = defaultValues]
  /\ passNumberLocal' = [passNumberLocal EXCEPT ![s] = ""]

\* Lines 110-117: the get of isEmailOrPhoneUnique resolves.
UniqueRead(s) ==
  /\ pc[s] = "unique"
  /\ LET uniqueField == isEmailOrPhoneUnique(store, data[s].email, data[s].phone)
     IN  IF uniqueField # null
         THEN /\ errors' = [errors EXCEPT ![s][uniqueField] =
                              DuplicateMessage(uniqueField)]
              /\ isLoading' = [isLoading EXCEPT ![s] = FALSE]
              /\ outcome' = [outcome EXCEPT ![s] = "duplicate"]
              /\ Return(s)
         ELSE /\ pc' = [pc EXCEPT ![s] = "generate"]
              /\ UNCHANGED <<data, passNumberLocal, errors, isLoading, outcome>>
  /\ UNCHANGED <<store, globalError, showDialog, passNumber, email, overlapped,
                 calls>>

\* Line 110: the get of isEmailOrPhoneUnique rejects; nothing in onSubmit
\* catches it, so the call ends there.
UniqueReadFail(s) ==
  /\ pc[s] = "unique"
  /\ outcome' = [outcome EXCEPT ![s] = "readError"]
  /\ Return(s)
  /\ UNCHANGED <<store, ui, overlapped, calls>>

\* Lines 117-127: the get of generatePassNumber resolves; push is issued.
GenerateRead(s) ==
  /\ pc[s] = "generate"
  /\ passNumberLocal' = [passNumberLocal EXCEPT ![s] = generatePassNumber(store)]
  /\ pc' = [pc EXCEPT ![s] = "save"]
  /\ UNCHANGED <<store, data, ui, outcome, overlapped, calls>>

\* Line 117: the get of generatePassNumber rejects, uncaught as well.
GenerateReadFail(s) ==
  /\ pc[s] = "generate"
  /\ outcome' = [outcome EXCEPT ![s] = "readError"]
  /\ Return(s)
  /\ UNCHANGED <<store, ui, overlapped, calls>>

\* Lines 127-143: push resolves; reset() clears the form and its errors.
SaveOk(s) ==
  /\ pc[s] = "save"
  /\ store' = Append(store, registrationData(data[s], passNumberLocal[s]))
  /\ passNumber' = [passNumber EXCEPT ![s] = passNumberLocal[s]]
  /\ email' = [email EXCEPT ![s] = data[s].email]
  /\ showDialog' = [showDialog EXCEPT ![s] = TRUE]
  /\ errors' = [errors EXCEPT ![s] = [email |-> NoError, phone |-> NoError]]
  /\ isLoading' = [isLoading EXCEPT ![s] = FALSE]
  /\ outcome' = [outcome EXCEPT ![s] = "success"]
  /\ Return(s)
  /\ UNCHANGED <<globalError, overlapped, calls>>

\* Faulty variant of SaveFail: isLoading is left set.
SaveFail_stuck(s) ==
  /\ pc[s] = "save"
  /\ globalError' = [globalError EXCEPT ![s] = GlobalErrorMessage]
  /\ outcome' = [outcome EXCEPT ![s] = "saveError"]
  /\ Return(s)
  /\ UNCHANGED <<store, errors, showDialog, passNumber, email, isLoading,
                 overlapped, calls>>

\* Lines 74-77 and 139-143: push rejects, saveToFirebase rethrows, onSubmit
\* catches.
SaveFail(s) ==
  /\ pc[s] = "save"
  /\ globalError' = [globalError EXCEPT ![s] = GlobalErrorMessage]
  /\ isLoading' = [isLoading EXCEPT ![s] = FALSE]
  /\ outcome' = [outcome EXCEPT ![s] = "saveError"]
  /\ Return(s)
  /\ UNCHANGED <<store, errors, showDialog, passNumber, email, overlapped,
                 calls>>

\* The dialog's Close button.
CloseDialog(s) ==
  /\ showDialog[s]
  /\ showDialog' = [showDialog EXCEPT ![s] = FALSE]
  /\ UNCHANGED <<store, pc, data, passNumberLocal, errors, globalError,
                 passNumber, email, isLoading, outcome, overlapped, calls>>

Next ==
  \E s \in Sessions :
    \/ \E d \in Inputs : Submit(s, d)
    \/ UniqueRead(s)
    \/ UniqueReadFail(s)
    \/ GenerateRead(s)
    \/ GenerateReadFail(s)
    \/ SaveOk(s)
    \/ SaveFail(s)
    \/ CloseDialog(s)

Spec == Init /\ [][Next]_vars

----------------------------------------------------------------------------
\* Steps of a session's onSubmit call, told apart by what the call did.

\* The get of isEmailOrPhoneUnique resolved for s.
UniqueReadStep(s) ==
  pc[s] = "unique" /\ pc'[s] # "unique" /\ outcome'[s] # "readError"

\* The get of generatePassNumber resolved for s.
GenerateReadStep(s) == pc[s] = "generate" /\ pc'[s] = "save"

\* The push of s resolved.
SaveOkStep(s) == pc[s] = "save" /\ outcome'[s] = "success"

\* The push of s rejected.
SaveFailStep(s) == pc[s] = "save" /\ outcome'[s] = "saveError"

Indices == 1..Len(store)

EmailMatches(s) == {i \in Indices : store[i].email = data[s].email}
PhoneMatches(s) == {i \in Indices : store[i].phone = data[s].phone}

Min(S) == CHOOSE m \in S : \A n \in S : m <= n

EmailDuplicate == [email |-> "Email already exists. Please use a different email.",
                   phone |-> ""]
PhoneDuplicate == [email |-> "",
                   phone |-> "Phone already exists. Please use a different phone."]

\* The call of s ended at this step, rejected, and the store is as it was.
Rejected(s) == pc'[s] = "idle" /\ ~isLoading'[s] /\ store' = store

----------------------------------------------------------------------------
\* C1: no two records of the store have the same email, and no two have the
\* same phone, in any reachable state, whatever the interleaving of the
\* sessions' reads and appends.
C1_UniqueEmailAndPhone ==
  \A i, j \in Indices :
    i # j => store[i].email # store[j].email /\ store[i].phone # store[j].phone

\* C2, as claimed: when submissions did not overlap and a record with the
\* submission's email is in the store, the submission is rejected with the
\* duplicate error on email and on no other field, and appends nothing.
C2_RejectedOnEmail ==
  [][\A s \in Sessions :
       (UniqueReadStep(s) /\ ~overlapped /\ EmailMatches(s) # {})
         => (Rejected(s) /\ errors'[s] = EmailDuplicate)]_vars

\* C2, amended: a submission whose uniqueness read finds a record with its
\* email is rejected with one duplicate error and appends nothing; the error
\* is on email unless a record before the first one with that email has the
\* submission's phone, and then it is on phone.
C2_RejectedOnFirstMatch ==
  [][\A s \in Sessions :
       (UniqueReadStep(s) /\ EmailMatches(s) # {})
         => /\ Rejected(s)
            /\ errors'[s] =
                 IF \E j \in PhoneMatches(s) : j < Min(EmailMatches(s))
                 THEN PhoneDuplicate ELSE EmailDuplicate]_vars

\* C2 witness: a duplicate email was reported on the field email.
C2_Witness ==
  \E s \in Sessions :
    /\ outcome[s] = "duplicate"
    /\ errors[s] = EmailDuplicate
    /\ \E i \in Indices : store[i].email = "a@b.com" /\ store[i].phone = "1234567890"
    /\ \A i \in Indices : store[i].phone # "9876543210"

\* C3, as claimed: when submissions did not overlap and a record with the
\* submission's phone is in the store, the submission is rejected with the
\* duplicate error on phone and on no other field, and appends nothing.
C3_RejectedOnPhone ==
  [][\A s \in Sessions :
       (UniqueReadStep(s) /\ ~overlapped /\ PhoneMatches(s) # {})
         => (Rejected(s) /\ errors'[s] = PhoneDuplicate)]_vars

\* C3, amended: a submission whose uniqueness read finds a record with its
\* phone is rejected with one duplicate error and appends nothing; the error
\* is on phone unless the first record with that phone, or a record before
\* it, has the submission's email, and then it is on email.
C3_RejectedOnFirstMatch ==
  [][\A s \in Sessions :
       (UniqueReadStep(s) /\ PhoneMatches(s) # {})
         => /\ Rejected(s)
            /\ errors'[s] =
                 IF \E j \in EmailMatches(s) : j <= Min(PhoneMatches(s))
                 THEN EmailDuplicate ELSE PhoneDuplicate]_vars

\* C3 witness: a duplicate phone was reported on the field phone.
C3_Witness ==
  \E s \in Sessions :
    /\ outcome[s] = "duplicate"
    /\ errors[s] = PhoneDuplicate
    /\ \E i \in Indices : store[i].phone = "1234567890"

\* C4: the pass number a submission is assigned is "HOLI-2025" followed by
\* the number of records generatePassNumber read plus one ("HOLI-20251" when
\* it read an empty store); a successful submission appends a record with
\* that number and displays it; and while no two submissions overlapped the
\* k-th record carries number k.
C4_PassNumberIsCountPlusOne ==
  [][/\ \A s \in Sessions :
          /\ GenerateReadStep(s) =>
               /\ passNumberLocal'[s] = "HOLI-2025" \o ToString(Len(store) + 1)
               /\ store = <<>> => passNumberLocal'[s] = "HOLI-20251"
          /\ SaveOkStep(s) =>
               /\ Len(store') = Len(store) + 1
               /\ store'[Len(store')].passNumber = passNumberLocal[s]
               /\ passNumber'[s] = passNumberLocal[s]
               /\ showDialog'[s]
     /\ ~overlapped' =>
          \A k \in 1..Len(store') :
            store'[k].passNumber = "HOLI-2025" \o ToString(k)]_vars

\* C4 witness: the second record was persisted and displayed as HOLI-20252.
C4_Witness ==
  \E s \in Sessions :
    /\ ~overlapped
    /\ Len(store) = 2
    /\ store[2].passNumber = "HOLI-20252"
    /\ passNumber[s] = "HOLI-20252"
    /\ showDialog[s]

\* C5: a call of onSubmit with a phone whose length is not 10 sets the phone
\* error and returns at once: no store call is issued (the call is not left
\* waiting for one), the store and the dialog are as before, and the submit
\* action is enabled.
C5_InvalidPhoneRejectedBeforeStore ==
  [][\A s \in Sessions : \A d \in Inputs :
       (Submit(s, d) /\ Len(d.phone) # 10)
         => /\ errors'[s].phone = "Phone number must be exactly 10 digits."
            /\ pc'[s] = "idle"
            /\ store' = store
            /\ showDialog'[s] = showDialog[s]
            /\ ~isLoading'[s]]_vars

\* C5 witness: a call was rejected for its phone length.
C5_Witness ==
  \E s \in Sessions :
    /\ outcome[s] = "invalidPhone"
    /\ errors[s].phone = "Phone number must be exactly 10 digits."
    /\ pc[s] = "idle"

\* C6: every record's price is the lookup of its own gender: 599 for "male",
\* 499 for "female", 0 for unset.
C6_PriceFollowsGender ==
  \A i \in Indices :
    \/ store[i].gender = "male" /\ store[i].price = 599
    \/ store[i].gender = "female" /\ store[i].price = 499
    \/ store[i].gender = "" /\ store[i].price = 0

\* C6 witness: records of all three genders are stored.
C6_Witness ==
  \A g \in {"male", "female", ""} : \E i \in Indices : store[i].gender = g

\* C7: when the push of a submission rejects, the store is unchanged, the
\* global error is set, the dialog and the displayed pass number and email
\* are as before, and the submit action is enabled.
C7_SaveFailureIsClean ==
  [][\A s \in Sessions :
       SaveFailStep(s)
         => /\ store' = store
            /\ globalError'[s] = "Error: Something went wrong. Please try again."
            /\ showDialog'[s] = showDialog[s]
            /\ passNumber'[s] = passNumber[s]
            /\ email'[s] = email[s]
            /\ ~isLoading'[s]
            /\ pc'[s] = "idle"]_vars

\* C7 witness: the push of the first submission rejected.
C7_Witness ==
  \E s \in Sessions :
    /\ outcome[s] = "saveError"
    /\ globalError[s] # null
    /\ ~isLoading[s]
    /\ store = <<>>

\* C8: whenever a submission has ended in failure (invalid phone, duplicate,
\* a failed read or a failed append), the failure is shown as a field error
\* or as the global error and the submit action is enabled again.
C8_FailureSurfacedAndReenabled ==
  \A s \in Sessions :
    outcome[s] \in {"invalidPhone", "duplicate", "readError", "saveError"}
      => /\ ~isLoading[s]
         /\ \/ errors[s].email # NoError
            \/ errors[s].phone # NoError
            \/ globalError[s] # null

\* C9: two records share a pass number only when submissions overlapped.
C9_SharedPassNumberNeedsOverlap ==
  ~overlapped =>
    \A i, j \in Indices : i # j => store[i].passNumber # store[j].passNumber

\* C9 witness: two records with distinct emails and distinct phones share a
\* pass number.
C9_Witness ==
  \E i, j \in Indices :
    /\ i < j
    /\ store[i].passNumber = store[j].passNumber
    /\ store[i].email # store[j].email
    /\ store[i].phone # store[j].phone

\* C10: every step leaves the store unchanged or appends one record with
\* paymentStatus "unpaid"; the append is the last step of a call whose phone
\* has length 10 and whose uniqueness read found no record with its email or
\* phone; every record is "unpaid".
C10_AppendOnly ==
  [][/\ \/ store' = store
        \/ \E s \in Sessions :
             /\ pc[s] = "save"
             /\ pc'[s] = "idle"
             /\ Len(data[s].phone) = 10
             /\ Len(store') = Len(store) + 1
             /\ SubSeq(store', 1, Len(store)) = store
             /\ store'[Len(store')].paymentStatus = "unpaid"
             /\ store'[Len(store')].email = data[s].email
             /\ store'[Len(store')].phone = data[s].phone
     /\ \A s \in Sessions :
          /\ pc'[s] \in {"generate", "save"} => pc[s] \in {"unique", "generate", "save"}
          /\ pc'[s] = "unique" => Len(data'[s].phone) = 10
          /\ (pc[s] = "unique" /\ pc'[s] = "generate")
               => EmailMatches(s) = {} /\ PhoneMatches(s) = {}
     /\ \A i \in 1..Len(store') : store'[i].paymentStatus = "unpaid"]_vars

\* C10 witness: the store grew to two records.
C10_Witness ==
  Len(store) = 2 /\ \A i \in Indices : store[i].paymentStatus = "unpaid"

====
